---- MODULE Spec2Model ----
(***************************************************************************)
(* A model of the record-mapping layer of sqlx-axum-mvc: the BasicType     *)
(* value domain (src/lib.rs), the statement building and parameter binding *)
(* of SqliteModel (src/sqlite.rs) and the table those statements act on.   *)
(*                                                                         *)
(* The store is SQLite behind sqlx.  What the model takes from it:         *)
(*   - `?` placeholders are numbered in order of appearance; sqlx binds    *)
(*     the k-th bound argument to the k-th placeholder, leaves a           *)
(*     placeholder without argument NULL and ignores arguments beyond the  *)
(*     last placeholder;                                                   *)
(*   - `a = b` is SQL equality: it is not true when either side is NULL;   *)
(*   - an INTEGER PRIMARY KEY column that receives no value (or NULL) is   *)
(*     assigned max(key) + 1, or 1 in an empty table;                      *)
(*   - a column left out of the column list receives its default;          *)
(*   - rows are scanned in key order; every change of a statement is made  *)
(*     on its first step, `returning *` rows are handed out afterwards.    *)
(*   - a number stored in or compared with a TEXT column is turned into    *)
(*     its text; the INTEGER PRIMARY KEY column takes integers only.       *)
(* The value sets below hold no text that reads as a number and no real    *)
(* with an integral value, the other conversions of SQLite's type          *)
(* affinity.                                                               *)
(***************************************************************************)
EXTENDS Integers, Sequences, FiniteSets, TLC

VARIABLES
    table,      \* the rows of the model's table, a set of Row with distinct keys
    notnull,    \* the columns create_table declared NOT NULL
    stmt,       \* the statement last handed to sqlx: text parts and bound arguments
    last,       \* the last operation: its arguments and its result
    tasks,      \* the upserts that run concurrently against the pool
    coerced     \* a native value and the BasicType made of it

vars == <<table, notnull, stmt, last, tasks, coerced>>

----------------------------------------------------------------------------
(* Bounds *)

MaxKey == 2         \* keys of entities and rows range over 1..MaxKey

----------------------------------------------------------------------------
(* BasicType, src/lib.rs *)

Null == [tag |-> "Null"]
Integer(n) == [tag |-> "Integer", int |-> n]
Real(f) == [tag |-> "Real", num |-> f]
Text(s) == [tag |-> "Text", str |-> s]
Blob(b) == [tag |-> "Blob", bytes |-> b]

----------------------------------------------------------------------------
(* The test model: its table and its entities *)

table_name == "TestModel"

\* the columns in the order map_cols_to_vals lists them
Cols == <<"id", "name", "passwd", "created_at">>
ColSet == {Cols[i] : i \in 1..Len(Cols)}

primary_col == "id"

\* created_at integer not null default (strftime('%s', 'now')): the clock's
\* value, a number no entity carries
DefaultCreatedAt == 9

\* create_table is left to the implementor.  The model runs the table of the
\* tests, and the same table with passwd nullable (an Option<String> field).
Schemas == { {"name", "passwd", "created_at"}, {"name", "created_at"} }

KeyVals == 1..MaxKey
NameVals == {Text("a"), Text("b")}
PasswdVals == {Text("p"), Null}
CreatedVals == {Integer(1)}

\* map_cols_to_vals of every entity of the model
Entities ==
    { [id |-> Integer(k), name |-> n, passwd |-> p, created_at |-> c] :
        k \in KeyVals, n \in NameVals, p \in PasswdVals, c \in CreatedVals }

map_cols_to_vals(e) == [c \in ColSet |-> e[c]]

\* HashMap iteration orders: every permutation of the columns
AllOrders == { o \in [1..Len(Cols) -> ColSet] : \A i, j \in 1..Len(Cols) : o[i] = o[j] => i = j }

\* the iteration orders the store runs draw from
Orders ==
    { <<"id", "name", "passwd", "created_at">>,
      <<"created_at", "passwd", "name", "id">>,
      <<"name", "id", "created_at", "passwd">>,
      <<"passwd", "created_at", "id", "name">> }

\* the conflict columns the model passes to upsert
ConflictCols == {"id", "name"}

\* the skip-lists the model passes
SkipLists == { {}, {"id"}, {"created_at"}, {"id", "created_at"} }

\* the filter values the model passes, one or more of every tag
FilterVals ==
    {Null, Real("1.5"), Text("a"), Text("p"), Blob(<<1>>)} \cup {Integer(k) : k \in KeyVals}

NoRow == [c \in ColSet |-> Null]

----------------------------------------------------------------------------
(* Statement building and binding, src/sqlite.rs *)

\* what `query.bind(..)` hands to the statement for a value, by its tag
bind(val) ==
    CASE val.tag = "Null" -> Null
      [] val.tag = "Integer" -> Integer(val.int)
      [] val.tag = "Real" -> Real(val.num)
      [] val.tag = "Text" -> Text(val.str)
      [] val.tag = "Blob" -> Blob(val.bytes)

\* the loop without its test of skip_cols
column_names_noskip(order, skip_cols) == order

\* a skip-list that names something the entity has no column for skips nothing
column_names_known_only(order, skip_cols) ==
    IF skip_cols \subseteq {order[i] : i \in 1..Len(order)}
    THEN SelectSeq(order, LAMBDA c : c \notin skip_cols)
    ELSE order

\* the loop over the map: the columns not skipped, in iteration order
column_names(order, skip_cols) == SelectSeq(order, LAMBDA c : c \notin skip_cols)

\* a second pass over the map, in another order than the pass that named the columns
ordered_vals_second_pass(e, order, skip_cols) ==
    LET cn == column_names(Cols, skip_cols)
    IN  [i \in 1..Len(cn) |-> map_cols_to_vals(e)[cn[i]]]

ordered_vals(e, order, skip_cols) ==
    LET cn == column_names(order, skip_cols)
    IN  [i \in 1..Len(cn) |-> map_cols_to_vals(e)[cn[i]]]

bind_all(vals) == [i \in 1..Len(vals) |-> bind(vals[i])]

NoStmt ==
    [kind |-> "none", column_names |-> <<>>, qmarks |-> 0, conflict_col |-> "",
     update_clause |-> <<>>, where_col |-> "", limit |-> 0, binds |-> <<>>]

\* insert into T (c1,..,cn) values (?,..,?) returning *
insert_stmt(e, order, skip_cols) ==
    LET cn == column_names(order, skip_cols)
    IN  [kind |-> "insert", column_names |-> cn, qmarks |-> Len(cn),
         conflict_col |-> "", update_clause |-> <<>>, where_col |-> "", limit |-> 0,
         binds |-> bind_all(ordered_vals(e, order, skip_cols))]

\* one pass over the values only
upsert_binds_once(vals) == bind_all(vals)

\* the arguments of upsert: `for _ in 0..2 { for val in &ordered_vals {..} }`
upsert_binds(vals) == bind_all(vals) \o bind_all(vals)

\* an upsert whose update clause sets the first listed column only
upsert_stmt_update_first(e, order, skip_cols, conflict_col) ==
    LET cn == column_names(order, skip_cols)
        vals == ordered_vals(e, order, skip_cols)
    IN  [kind |-> "upsert", column_names |-> cn, qmarks |-> Len(cn),
         conflict_col |-> conflict_col, update_clause |-> SubSeq(cn, 1, 1),
         where_col |-> "", limit |-> 0,
         binds |-> bind_all(vals) \o bind_all(SubSeq(vals, 1, 1))]

\* an upsert that lists every column, skipped or not
upsert_stmt_noskip(e, order, skip_cols, conflict_col) ==
    [kind |-> "upsert", column_names |-> order, qmarks |-> Len(order),
     conflict_col |-> conflict_col, update_clause |-> order, where_col |-> "", limit |-> 0,
     binds |-> upsert_binds(ordered_vals(e, order, {}))]

\* insert into T (c1,..,cn) values (?,..,?)
\*   on conflict(K) do update set c1 = ?,..,cn = ? returning *
upsert_stmt(e, order, skip_cols, conflict_col) ==
    LET cn == column_names(order, skip_cols)
    IN  [kind |-> "upsert", column_names |-> cn, qmarks |-> Len(cn),
         conflict_col |-> conflict_col, update_clause |-> cn, where_col |-> "", limit |-> 0,
         binds |-> upsert_binds(ordered_vals(e, order, skip_cols))]

\* the two binds of an arm in the other order
filter_binds_swapped(val) ==
    IF val.tag = "Null" THEN <<Null>> ELSE <<Null, bind(val)>>

\* the arguments of select_one, select_many and delete_one: the Null arm binds
\* one absent value, every other arm binds the value and then an absent value
filter_binds(val) ==
    IF val.tag = "Null" THEN <<Null>> ELSE <<bind(val), Null>>

\* select * from T where col = ?
select_stmt(col, val) ==
    [kind |-> "select", column_names |-> <<>>, qmarks |-> 1, conflict_col |-> "",
     update_clause |-> <<>>, where_col |-> col, limit |-> 0,
     binds |-> filter_binds(val)]

\* delete from T where col = ? returning *
delete_stmt(col, val) ==
    [kind |-> "delete", column_names |-> <<>>, qmarks |-> 1, conflict_col |-> "",
     update_clause |-> <<>>, where_col |-> col, limit |-> 0,
     binds |-> filter_binds(val)]

\* the number of `?` in the statement text
Placeholders(s) == s.qmarks + Len(s.update_clause)

----------------------------------------------------------------------------
(* The store: what SQLite does with a bound statement *)

Keys(t) == { r["id"].int : r \in t }

Max(S) == CHOOSE m \in S : \A x \in S : x <= m

\* the key an INTEGER PRIMARY KEY column gets when the statement gives none
NextRowid(t) == IF t = {} THEN 1 ELSE Max(Keys(t)) + 1

\* the rows of a set in key order, the order of a table scan
RECURSIVE InKeyOrder(_)
InKeyOrder(rows) ==
    IF rows = {} THEN <<>>
    ELSE LET first == CHOOSE r \in rows : \A q \in rows : r["id"].int <= q["id"].int
         IN  <<first>> \o InKeyOrder(rows \ {first})

\* the argument the k-th placeholder receives
Param(s, k) == IF k <= Len(s.binds) THEN s.binds[k] ELSE Null

\* SQL `a = b`
SqlEq(a, b) == a.tag # "Null" /\ b.tag # "Null" /\ a = b

\* name text, passwd text: the columns of TEXT affinity
TextCols == {"name", "passwd"}

\* the value a column holds, or is compared with, for a given argument
Affinity(c, v) ==
    IF c \in TextCols /\ v.tag = "Integer" THEN Text(ToString(v.int))
    ELSE IF c \in TextCols /\ v.tag = "Real" THEN Text(v.num)
    ELSE v

Default(c) == IF c = "created_at" THEN Integer(DefaultCreatedAt) ELSE Null

Position(seq, c) == CHOOSE i \in 1..Len(seq) : seq[i] = c
Listed(seq, c) == \E i \in 1..Len(seq) : seq[i] = c

\* results of a statement: the rows it returns, the table it leaves and the
\* number of statements the call has sent
Failed(t, kind) ==
    [ok |-> FALSE, err |-> kind, rows |-> <<>>, table |-> t, prior |-> NoRow, sent |-> 1]
Done(t, rows, prior) ==
    [ok |-> TRUE, err |-> "", rows |-> rows, table |-> t, prior |-> prior, sent |-> 1]

\* the row the values clause describes
ValuesRow(t, s) ==
    LET given == [c \in ColSet |->
                    IF Listed(s.column_names, c)
                    THEN Affinity(c, Param(s, Position(s.column_names, c)))
                    ELSE Default(c)]
    IN  IF given["id"].tag = "Null"
        THEN [given EXCEPT !["id"] = Integer(NextRowid(t))]
        ELSE given

\* the row `do update set c1 = ?,..` makes of the row in conflict
UpdatedRow(old, s) ==
    [c \in ColSet |->
        IF Listed(s.update_clause, c)
        THEN Affinity(c, Param(s, s.qmarks + Position(s.update_clause, c)))
        ELSE old[c]]

\* insert .. returning *, with or without on conflict(K) do update set ..
ExecWrite(t, nn, s) ==
    IF s.qmarks = 0
    THEN Failed(t, "Other")                     \* `insert into T () values ()`: syntax error
    ELSE IF s.kind = "upsert" /\ s.conflict_col # primary_col
    THEN Failed(t, "Other")                     \* K carries no uniqueness constraint
    ELSE
    LET row == ValuesRow(t, s)
        hit == { r \in t : r["id"] = row["id"] }
    IN  IF row["id"].tag # "Integer"
        THEN Failed(t, "Other")                 \* datatype mismatch
        ELSE IF \E c \in nn : row[c].tag = "Null"
        THEN Failed(t, "Other")                 \* NOT NULL constraint
        ELSE IF hit = {}
        THEN Done(t \cup {row}, <<row>>, NoRow)
        ELSE IF s.kind = "insert"
        THEN Failed(t, "Other")                 \* UNIQUE constraint
        ELSE
        LET old == CHOOSE r \in hit : TRUE
            new == UpdatedRow(old, s)
        IN  IF new["id"].tag # "Integer" \/ \E c \in nn : new[c].tag = "Null"
            THEN Failed(t, "Other")
            ELSE IF \E r \in t \ {old} : r["id"] = new["id"]
            THEN Failed(t, "Other")
            ELSE Done((t \ {old}) \cup {new}, <<new>>, old)

\* the rows `where col = ?` selects
Matching(t, s) == { r \in t : SqlEq(r[s.where_col], Affinity(s.where_col, Param(s, 1))) }

\* select * from T where col = ?
ExecSelect(t, s) == Done(t, InKeyOrder(Matching(t, s)), NoRow)

\* delete from T where col = ? returning *
ExecDelete(t, s) == Done(t \ Matching(t, s), InKeyOrder(Matching(t, s)), NoRow)

\* a fetch that fails unless the statement returned a single row
fetch_one_single(r) ==
    IF ~r.ok THEN r
    ELSE IF Len(r.rows) # 1 THEN [r EXCEPT !.ok = FALSE, !.err = "RowNotFound", !.rows = <<>>]
    ELSE r

\* sqlx fetch_one: the first row, RowNotFound when there is none
fetch_one(r) ==
    IF ~r.ok THEN r
    ELSE IF r.rows = <<>> THEN [r EXCEPT !.ok = FALSE, !.err = "RowNotFound"]
    ELSE [r EXCEPT !.rows = <<r.rows[1]>>]

\* sqlx fetch_all: every row
fetch_all(r) == r

----------------------------------------------------------------------------
(* The operations of SqliteModel: what each returns and leaves in the table *)

insert_result(t, nn, e, order, skip_cols) ==
    fetch_one(ExecWrite(t, nn, insert_stmt(e, order, skip_cols)))

upsert_result(t, nn, e, order, skip_cols, conflict_col) ==
    fetch_one(ExecWrite(t, nn, upsert_stmt(e, order, skip_cols, conflict_col)))

select_one_result(t, col, val) == fetch_one(ExecSelect(t, select_stmt(col, val)))

select_many_result(t, col, val) == fetch_all(ExecSelect(t, select_stmt(col, val)))

delete_one_result(t, col, val) == fetch_one(ExecDelete(t, delete_stmt(col, val)))

\* DbModel::delete, the delete that delete_json and test_delete call:
\* `delete from T where col = ? returning *`, every deleted row returned
delete_all_stmt(col, val) ==
    [kind |-> "delete", column_names |-> <<>>, qmarks |-> 1, conflict_col |-> "",
     update_clause |-> <<>>, where_col |-> col, limit |-> 0,
     binds |-> <<bind(val)>>]

delete_result(t, col, val) == fetch_all(ExecDelete(t, delete_all_stmt(col, val)))

----------------------------------------------------------------------------
(* The state machine.  A caller issues one operation, takes its result      *)
(* (`last`, with the statement that produced it in `stmt`) and goes on to  *)
(* the next operation.                                                     *)

NoOp ==
    [op |-> "none", e |-> NoRow, order |-> <<>>, skip_cols |-> {}, conflict_col |-> "",
     col |-> "", val |-> Null, ok |-> TRUE, err |-> "", rows |-> <<>>, prior |-> NoRow,
     sent |-> 0, status |-> 0]

Call(op, e, order, skip_cols, conflict_col, col, val, r) ==
    [op |-> op, e |-> e, order |-> order, skip_cols |-> skip_cols,
     conflict_col |-> conflict_col, col |-> col, val |-> val, ok |-> r.ok,
     err |-> r.err, rows |-> r.rows, prior |-> r.prior, sent |-> r.sent, status |-> 0]

\* keys stay within the model's range
InRange(r) == Keys(r.table) \subseteq KeyVals

Idle == last.op = "none"

\* no concurrent upsert, no coercion
NoTasks == <<>>
NoCoercion == [done |-> FALSE, native |-> <<>>, value |-> Null]

Init ==
    /\ table = {}
    /\ notnull \in Schemas
    /\ stmt = NoStmt
    /\ last = NoOp
    /\ tasks = NoTasks
    /\ coerced = NoCoercion

insert(e, order, skip_cols) ==
    LET r == insert_result(table, notnull, e, order, skip_cols)
    IN  /\ Idle
        /\ InRange(r)
        /\ stmt' = insert_stmt(e, order, skip_cols)
        /\ table' = r.table
        /\ last' = Call("insert", e, order, skip_cols, "", "", Null, r)
        /\ UNCHANGED <<notnull, tasks, coerced>>

upsert(e, order, skip_cols, conflict_col) ==
    LET r == upsert_result(table, notnull, e, order, skip_cols, conflict_col)
    IN  /\ Idle
        /\ InRange(r)
        /\ stmt' = upsert_stmt(e, order, skip_cols, conflict_col)
        /\ table' = r.table
        /\ last' = Call("upsert", e, order, skip_cols, conflict_col, "", Null, r)
        /\ UNCHANGED <<notnull, tasks, coerced>>

select_one(col, val) ==
    LET r == select_one_result(table, col, val)
    IN  /\ Idle
        /\ stmt' = select_stmt(col, val)
        /\ table' = r.table
        /\ last' = Call("select_one", NoRow, <<>>, {}, "", col, val, r)
        /\ UNCHANGED <<notnull, tasks, coerced>>

select_many(col, val) ==
    LET r == select_many_result(table, col, val)
    IN  /\ Idle
        /\ stmt' = select_stmt(col, val)
        /\ table' = r.table
        /\ last' = Call("select_many", NoRow, <<>>, {}, "", col, val, r)
        /\ UNCHANGED <<notnull, tasks, coerced>>

delete_one(col, val) ==
    LET r == delete_one_result(table, col, val)
    IN  /\ Idle
        /\ stmt' = delete_stmt(col, val)
        /\ table' = r.table
        /\ last' = Call("delete_one", NoRow, <<>>, {}, "", col, val, r)
        /\ UNCHANGED <<notnull, tasks, coerced>>

delete(col, val) ==
    LET r == delete_result(table, col, val)
    IN  /\ Idle
        /\ stmt' = delete_all_stmt(col, val)
        /\ table' = r.table
        /\ last' = Call("delete", NoRow, <<>>, {}, "", col, val, r)
        /\ UNCHANGED <<notnull, tasks, coerced>>

\* the caller has taken the result
Continue ==
    /\ ~Idle
    /\ last' = NoOp
    /\ stmt' = NoStmt
    /\ UNCHANGED <<table, notnull, tasks, coerced>>

Write(orders, skips) ==
    \/ \E e \in Entities, order \in orders, skip_cols \in skips :
          insert(e, order, skip_cols)
    \/ \E e \in Entities, order \in orders, skip_cols \in skips,
          conflict_col \in ConflictCols :
          upsert(e, order, skip_cols, conflict_col)

Operation(orders) ==
    \/ Write(orders, SkipLists)
    \/ \E col \in ColSet, val \in FilterVals : select_one(col, val)
    \/ \E col \in ColSet, val \in FilterVals : select_many(col, val)
    \/ \E col \in ColSet, val \in FilterVals : delete_one(col, val)
    \/ \E col \in ColSet, val \in FilterVals : delete(col, val)

Next == Operation(Orders) \/ Continue

Spec == Init /\ [][Next]_vars

\* the first operation on the empty table, under every iteration order
NextStmt == table = {} /\ Operation(AllOrders)

SpecStmt == Init /\ [][NextStmt]_vars

----------------------------------------------------------------------------
(* Claims on statement building and binding *)

NonSkipped(skip_cols) == ColSet \ skip_cols

Distinct(seq) == \A i, j \in 1..Len(seq) : seq[i] = seq[j] => i = j

\* C1: an upsert with n non-skipped columns binds exactly 2n values to the
\* statement's 2n placeholders, and for every i in 1..n the values at positions
\* i and n+i are the entity's value of the i-th column, which the column list
\* and the update-set list both name at place i.
C1_UpsertBindsTwice ==
    stmt.kind = "upsert" =>
        LET n == Cardinality(NonSkipped(last.skip_cols))
        IN  /\ Len(stmt.column_names) = n
            /\ Len(stmt.update_clause) = n
            /\ Placeholders(stmt) = 2 * n
            /\ Len(stmt.binds) = 2 * n
            /\ \A i \in 1..n :
                  /\ stmt.column_names[i] = stmt.update_clause[i]
                  /\ stmt.binds[i] = last.e[stmt.column_names[i]]
                  /\ stmt.binds[n + i] = last.e[stmt.update_clause[i]]

\* an upsert whose columns are not in declaration order and whose first two
\* values differ
C1_Witness ==
    /\ stmt.kind = "upsert"
    /\ Len(stmt.column_names) = 3
    /\ stmt.column_names # column_names(Cols, last.skip_cols)
    /\ stmt.binds[1] # stmt.binds[2]
    /\ Len(stmt.binds) = 6

\* C2: whatever the skip-list and the iteration order of the map, insert lists
\* exactly the columns that are not skipped, each once, with one placeholder
\* each, binds at position i the entity's value of the i-th listed column, and
\* the row stored holds the entity's value in every listed column.
C2_InsertBindsByColumn ==
    stmt.kind = "insert" =>
        /\ {stmt.column_names[i] : i \in 1..Len(stmt.column_names)} = NonSkipped(last.skip_cols)
        /\ Distinct(stmt.column_names)
        /\ Placeholders(stmt) = Len(stmt.column_names)
        /\ Len(stmt.binds) = Len(stmt.column_names)
        /\ \A i \in 1..Len(stmt.column_names) :
              stmt.binds[i] = last.e[stmt.column_names[i]]
        /\ last.ok => \A c \in NonSkipped(last.skip_cols) : last.rows[1][c] = last.e[c]

\* a successful insert with the key skipped, the columns out of declaration order
C2_Witness ==
    /\ stmt.kind = "insert"
    /\ last.ok
    /\ last.skip_cols = {"id"}
    /\ stmt.column_names = <<"passwd", "created_at", "name">>
    /\ last.rows[1]["name"] = Text("b")

\* C3: select_one, select_many and delete bind exactly the one filter value to
\* the one placeholder of `where col = ?`, whatever its tag, and nothing beyond
\* the number of placeholders.
C3_FilterBindsOne ==
    stmt.kind \in {"select", "delete"} =>
        /\ Placeholders(stmt) = 1
        /\ stmt.binds = <<last.val>>
        /\ Len(stmt.binds) <= Placeholders(stmt)

----------------------------------------------------------------------------
(* Claims on what the operations do to the table *)

Updated == last.prior # NoRow

\* C4: after any sequence of operations, a successful upsert increases the row
\* count by exactly one when the conflict-column value it writes is not in the
\* table (the entity's value, or a store-assigned one when the conflict column
\* is skipped), and leaves the row count unchanged when the entity's
\* conflict-column value is already in the table.
C4_UpsertRowCount ==
    [][ (last'.op = "upsert" /\ last'.ok) =>
          LET cc == last'.conflict_col
              present == /\ cc \notin last'.skip_cols
                         /\ \E r \in table : r[cc] = last'.e[cc]
          IN  Cardinality(table') = Cardinality(table) + (IF present THEN 0 ELSE 1)
      ]_vars

\* an upsert has replaced one of two rows
C4_Witness ==
    /\ last.op = "upsert"
    /\ last.ok
    /\ Updated
    /\ last.skip_cols = {}
    /\ Cardinality(table) = 2

\* C5: an upsert with an empty skip-list on the primary key, of an entity the
\* table's NOT NULL columns admit, succeeds and leaves exactly one row with the
\* entity's key, equal to the entity on every column: a second upsert of the
\* same key with another payload replaces the first.
C5_UpsertReplaces ==
    ( /\ last.op = "upsert"
      /\ last.conflict_col = primary_col
      /\ last.skip_cols = {}
      /\ \A c \in notnull : last.e[c] # Null ) =>
        /\ last.ok
        /\ Cardinality({ r \in table : r["id"] = last.e["id"] }) = 1
        /\ \A r \in table : r["id"] = last.e["id"] => r = map_cols_to_vals(last.e)
        /\ last.rows = << map_cols_to_vals(last.e) >>

\* the upsert met a row of its key with another name and another passwd
C5_Witness ==
    /\ last.op = "upsert"
    /\ last.ok
    /\ last.skip_cols = {}
    /\ Updated
    /\ last.prior["id"] = last.e["id"]
    /\ last.prior["name"] # last.e["name"]
    /\ last.prior["passwd"] # last.e["passwd"]
    /\ Cardinality(table) = 1

\* C6: a successful insert or upsert whose skip-list holds the primary-key
\* column stores a new row under a key the table did not hold; in a table that
\* holds the keys 1..k-1 (the first k-1 such writes into an empty table) the
\* key is k, whatever key the entity carries, and the row equals the entity on
\* every column not skipped.
C6_StoreAssignsKey ==
    [][ (last'.op \in {"insert", "upsert"} /\ last'.ok /\ primary_col \in last'.skip_cols) =>
          LET row == last'.rows[1]
              k == Cardinality(table) + 1
          IN  /\ row[primary_col].int \notin Keys(table)
              /\ table' = table \cup {row}
              /\ Keys(table) = 1..(k - 1) => row[primary_col] = Integer(k)
              /\ \A c \in NonSkipped(last'.skip_cols) : row[c] = last'.e[c]
      ]_vars

\* the second write with the key skipped yields key 2 for an entity of key 1
C6_Witness ==
    /\ last.op = "insert"
    /\ last.ok
    /\ last.skip_cols = {"id"}
    /\ last.e["id"] = Integer(1)
    /\ last.rows[1]["id"] = Integer(2)
    /\ Keys(table) = {1, 2}

\* C7: after a successful insert, whatever the entity and the skip-list,
\* select_one on the primary-key column with the key of the returned row
\* succeeds with the row insert returned, which equals the entity on every
\* column not skipped.
C7_InsertThenSelectOne ==
    (last.op = "insert" /\ last.ok) =>
        LET row == last.rows[1]
            r == select_one_result(table, primary_col, row[primary_col])
        IN  /\ r.ok
            /\ r.rows = <<row>>
            /\ r.table = table
            /\ \A c \in NonSkipped(last.skip_cols) : r.rows[1][c] = last.e[c]

\* an insert with key and created_at skipped into a table that holds another
\* row, and the select_one that finds the new row
C7_Witness ==
    /\ last.op = "insert"
    /\ last.ok
    /\ last.skip_cols = {"id", "created_at"}
    /\ Cardinality(table) = 2
    /\ last.rows[1]["id"] # last.e["id"]
    /\ select_one_result(table, primary_col, last.rows[1][primary_col]).rows = last.rows

\* the rows whose column holds the filter value
Holding(t, col, val) == { r \in t : r[col] = val }

\* C8: select_many returns exactly the rows whose filter column equals the
\* filter value, in key order, and an empty sequence without error when there
\* is none, for a filter value of every tag.
C8_SelectManyExact ==
    last.op = "select_many" =>
        /\ last.ok
        /\ last.rows = InKeyOrder(Holding(table, last.col, last.val))

\* C9: a successful delete removes exactly the rows whose filter column equals
\* the filter value and returns every row it removed; the other rows stay, and
\* a select_many on the same filter then returns an empty sequence.
C9_DeleteReturnsRemoved ==
    [][ (last'.op = "delete_one" /\ last'.ok) =>
          /\ table' = table \ Holding(table, last'.col, last'.val)
          /\ last'.rows = InKeyOrder(table \ table')
          /\ select_many_result(table', last'.col, last'.val).rows = <<>>
      ]_vars

\* C10: a successful delete_one has removed a single record, the record it
\* returned.
C10_DeleteOneRemovesOne ==
    [][ (last'.op = "delete_one" /\ last'.ok) =>
          /\ Len(last'.rows) = 1
          /\ table \ table' = { last'.rows[1] }
          /\ table' \subseteq table
      ]_vars

----------------------------------------------------------------------------
(* Claims on errors and on what an operation leaves alone *)

\* C11: select_one returns at most one row: its statement is itself limited to
\* one row, it returns one row holding the filter value when at least one row
\* holds it, and a not-found error when none does.
C11_SelectOneAtMostOne ==
    last.op = "select_one" =>
        /\ stmt.limit = 1
        /\ Len(last.rows) <= 1
        /\ Holding(table, last.col, last.val) # {} =>
              /\ last.ok
              /\ last.rows[1] \in Holding(table, last.col, last.val)
        /\ Holding(table, last.col, last.val) = {} =>
              /\ ~last.ok
              /\ last.err = "RowNotFound"

----------------------------------------------------------------------------
(* Skip-lists that exclude every column, or name what is no column *)

\* the rows the table can hold under a schema, and the tables made of them
Payloads(nn) ==
    { p \in [{"name", "passwd", "created_at"} -> NameVals \cup PasswdVals \cup
                CreatedVals \cup {Integer(DefaultCreatedAt)}] :
        /\ p["name"] \in NameVals
        /\ p["passwd"] \in PasswdVals
        /\ p["passwd"] = Null => "passwd" \notin nn
        /\ p["created_at"] \in CreatedVals \cup {Integer(DefaultCreatedAt)} }

StoredRow(k, p) ==
    [c \in ColSet |-> IF c = primary_col THEN Integer(k) ELSE p[c]]

Tables(nn) ==
    UNION { { { StoredRow(k, f[k]) : k \in K } : f \in [K -> Payloads(nn)] } :
            K \in SUBSET KeyVals }

ExtraSkipLists ==
    { ColSet, {"bogus"}, {"id", "bogus"}, {"created_at", "bogus"} }

InitSkip ==
    /\ notnull \in Schemas
    /\ table \in Tables(notnull)
    /\ stmt = NoStmt
    /\ last = NoOp
    /\ tasks = NoTasks
    /\ coerced = NoCoercion

\* one insert or upsert with such a skip-list, on any table
NextSkip == Write(Orders, ExtraSkipLists)

SpecSkip == InitSkip /\ [][NextSkip]_vars

\* C12: when the skip-list excludes every column, insert and upsert fail with
\* a configuration error before any statement is built, and no statement is
\* sent to the store.
C12_AllSkippedIsConfigError ==
    (last.op \in {"insert", "upsert"} /\ NonSkipped(last.skip_cols) = {}) =>
        /\ ~last.ok
        /\ last.err = "Configuration"
        /\ stmt = NoStmt
        /\ last.sent = 0

\* C13: names in the skip-list that are no column of the entity are ignored:
\* an insert or upsert whose skip-list holds such names builds the statement
\* and the binds, and has the result, of the same call without them.
C13_UnknownSkipIgnored ==
    [][ (last'.op \in {"insert", "upsert"} /\ last'.skip_cols \ ColSet # {}) =>
          LET S == last'.skip_cols \cap ColSet
              s == IF last'.op = "insert"
                   THEN insert_stmt(last'.e, last'.order, S)
                   ELSE upsert_stmt(last'.e, last'.order, S, last'.conflict_col)
              r == IF last'.op = "insert"
                   THEN insert_result(table, notnull, last'.e, last'.order, S)
                   ELSE upsert_result(table, notnull, last'.e, last'.order, S,
                                      last'.conflict_col)
          IN  /\ stmt' = s
              /\ last'.ok = r.ok
              /\ last'.err = r.err
              /\ last'.rows = r.rows
              /\ table' = r.table
      ]_vars

\* a successful upsert that skips the key and a name that is no column, into
\* a table that holds a row
C13_Witness ==
    /\ last.op = "upsert"
    /\ last.ok
    /\ last.skip_cols = {"id", "bogus"}
    /\ Len(stmt.column_names) = 3
    /\ Cardinality(table) = 2

----------------------------------------------------------------------------
(* One statement per call, and nothing written by a call that fails *)

----------------------------------------------------------------------------
(* The JSON wrappers of AxumModel.  Each calls one operation of the model  *)
(* and turns its error into a status code and a message.                   *)

NOT_FOUND == 404
INTERNAL_SERVER_ERROR == 500

\* an error that answers every failure with the same status
from_error_any(err) == INTERNAL_SERVER_ERROR

\* impl From<Error> for (StatusCode, String)
from_error(err) ==
    IF err = "RowNotFound" THEN NOT_FOUND ELSE INTERNAL_SERVER_ERROR

\* a post_json that skips no column
post_json_skip_none == {}

\* the skip-list post_json hands to insert
post_json_skip_cols == {primary_col}

\* Ok(axum::Json(..)) or the error's status
Json(op, e, order, skip_cols, conflict_col, col, val, r) ==
    [Call(op, e, order, skip_cols, conflict_col, col, val, r)
        EXCEPT !.status = IF r.ok THEN 0 ELSE from_error(r.err)]

get_json(primary_key) ==
    LET r == select_one_result(table, primary_col, primary_key)
    IN  /\ Idle
        /\ stmt' = select_stmt(primary_col, primary_key)
        /\ table' = r.table
        /\ last' = Json("get_json", NoRow, <<>>, {}, "", primary_col, primary_key, r)
        /\ UNCHANGED <<notnull, tasks, coerced>>

post_json(e, order) ==
    LET r == insert_result(table, notnull, e, order, post_json_skip_cols)
    IN  /\ Idle
        /\ InRange(r)
        /\ stmt' = insert_stmt(e, order, post_json_skip_cols)
        /\ table' = r.table
        /\ last' = Json("post_json", e, order, post_json_skip_cols, "", "", Null, r)
        /\ UNCHANGED <<notnull, tasks, coerced>>

put_json(e, order) ==
    LET r == upsert_result(table, notnull, e, order, {}, primary_col)
    IN  /\ Idle
        /\ InRange(r)
        /\ stmt' = upsert_stmt(e, order, {}, primary_col)
        /\ table' = r.table
        /\ last' = Json("put_json", e, order, {}, primary_col, "", Null, r)
        /\ UNCHANGED <<notnull, tasks, coerced>>

delete_json(col, val) ==
    LET r == delete_result(table, col, val)
    IN  /\ Idle
        /\ stmt' = delete_all_stmt(col, val)
        /\ table' = r.table
        /\ last' = Json("delete_json", NoRow, <<>>, {}, "", col, val, r)
        /\ UNCHANGED <<notnull, tasks, coerced>>

NextJson ==
    \/ \E primary_key \in FilterVals : get_json(primary_key)
    \/ \E e \in Entities, order \in Orders : post_json(e, order)
    \/ \E e \in Entities, order \in Orders : put_json(e, order)
    \/ \E col \in ColSet, val \in FilterVals : delete_json(col, val)
    \/ Continue

SpecJson == Init /\ [][NextJson]_vars

JsonOps == {"get_json", "post_json", "put_json", "delete_json"}

\* C15: a JSON wrapper answers by the kind of the error only: a call that
\* fails because no row holds the value asked for answers not-found (404), a
\* call that fails in any other way answers internal-error (500), and a call
\* that succeeds returns the entity, or the entities, with no error status.
C15_StatusByErrorKind ==
    last.op \in JsonOps =>
        /\ last.ok =>
              /\ last.status = 0
              /\ last.op # "delete_json" => Len(last.rows) = 1
        /\ (~last.ok /\ last.op = "get_json"
                /\ Holding(table, last.col, last.val) = {}) => last.status = 404
        /\ (~last.ok /\ last.op \in {"post_json", "put_json"}) => last.status = 500
        /\ (~last.ok /\ last.err # "RowNotFound") => last.status = 500

\* get_json for a key that no row of the table has
C15_Witness ==
    /\ last.op = "get_json"
    /\ last.val = Integer(2)
    /\ Keys(table) = {1}
    /\ ~last.ok
    /\ last.status = 404

\* a post_json that the store refuses
C15_WitnessRefused ==
    /\ last.op = "post_json"
    /\ ~last.ok
    /\ last.status = 500

\* C18: post_json writes the entity with the primary-key column skipped, so
\* the stored row has the key the store assigns whatever key the entity held;
\* put_json writes every column with the primary-key column as conflict
\* column, so the stored row has the entity's key; both return the row stored.
C18_PostAssignsPutKeeps ==
    [][ /\ (last'.op = "post_json" /\ last'.ok) =>
              LET row == last'.rows[1]
              IN  /\ ~Listed(stmt'.column_names, primary_col)
                  /\ row[primary_col] = Integer(NextRowid(table))
                  /\ \A c \in ColSet \ {primary_col} : row[c] = last'.e[c]
                  /\ table' = table \cup {row}
                  /\ row \notin table
        /\ (last'.op = "put_json" /\ last'.ok) =>
              LET row == last'.rows[1]
              IN  /\ {stmt'.column_names[i] : i \in 1..Len(stmt'.column_names)} = ColSet
                  /\ stmt'.conflict_col = primary_col
                  /\ row = last'.e
                  /\ Holding(table', primary_col, last'.e[primary_col]) = {row}
      ]_vars

\* a post_json of an entity whose key a row already has: stored under the
\* next key
C18_Witness ==
    /\ last.op = "post_json"
    /\ last.ok
    /\ last.e[primary_col] = Integer(1)
    /\ last.rows[1][primary_col] = Integer(2)
    /\ last.rows[1] \in table
    /\ Keys(table) = {1, 2}

\* a put_json that replaced the row of its key
C18_WitnessPut ==
    /\ last.op = "put_json"
    /\ last.ok
    /\ Updated
    /\ last.rows[1] \in table

----------------------------------------------------------------------------
(* What an upsert and the selects leave alone *)

\* C19: an upsert whose conflict-column value a row of the table has changes
\* that row only, and in it the columns not skipped only: every other row is
\* as it was and every skipped column keeps the value the row had; select_one
\* and select_many change no row.
C19_UpsertFrame ==
    [][ /\ ( /\ last'.op = "upsert"
             /\ last'.ok
             /\ last'.conflict_col \notin last'.skip_cols
             /\ Holding(table, last'.conflict_col, last'.e[last'.conflict_col]) # {} ) =>
              LET old == CHOOSE r \in table :
                            r[last'.conflict_col] = last'.e[last'.conflict_col]
                  new == last'.rows[1]
              IN  /\ table' \ {new} = table \ {old}
                  /\ new \in table'
                  /\ \A c \in last'.skip_cols \cap ColSet : new[c] = old[c]
                  /\ \A c \in NonSkipped(last'.skip_cols) : new[c] = last'.e[c]
        /\ last'.op \in {"select_one", "select_many"} => table' = table
      ]_vars

\* an upsert that skips created_at and replaces one of two rows, whose
\* created_at is the store's default and not the entity's
C19_Witness ==
    /\ last.op = "upsert"
    /\ last.ok
    /\ Updated
    /\ last.skip_cols = {"created_at"}
    /\ last.prior["created_at"] = Integer(DefaultCreatedAt)
    /\ last.e["created_at"] # Integer(DefaultCreatedAt)
    /\ last.rows[1]["created_at"] = Integer(DefaultCreatedAt)
    /\ last.rows[1]["name"] # last.prior["name"]
    /\ Cardinality(table) = 2

----------------------------------------------------------------------------
(* Coercion of native values to BasicType: the From implementations.  A    *)
(* value of an 8 or 16 bit integer type is its bit pattern; values of the  *)
(* wider integer types are written as numbers.                             *)

MaxNest == 2

BitTypes == {"i8", "u8", "i16", "u16"}
Signed == {"i8", "i16"}
Bits(ty) == IF ty \in {"i8", "u8"} THEN 8 ELSE 16

Patterns(ty) == {0, 1, 2^(Bits(ty) - 1) - 1, 2^(Bits(ty) - 1), 2^Bits(ty) - 1}

Scalars ==
    { [ty |-> ty, bits |-> b] : <<ty, b>> \in
        { tb \in BitTypes \X (0..65535) : tb[2] \in Patterns(tb[1]) } }
    \cup { [ty |-> ty, num |-> n] :
             ty \in {"i64", "i32"}, n \in {-2147483647, -1, 0, 1, 2147483647} }
    \cup { [ty |-> "u32", num |-> n] : n \in {0, 1, 2147483647} }
    \cup { [ty |-> "f64", real |-> f] : f \in {"1.5", "-0.0"} }
    \cup { [ty |-> ty, str |-> x] : ty \in {"String", "&str"}, x \in {"", "a"} }
    \cup { [ty |-> ty, bytes |-> b] : ty \in {"Vec<u8>", "&[u8]"}, b \in {<<>>, <<1, 255>>} }

None == [ty |-> "Option", opt |-> <<>>]
Some(n) == [ty |-> "Option", opt |-> <<n>>]

RECURSIVE Nested(_)
Nested(d) ==
    IF d = 0 THEN Scalars
    ELSE {None} \cup { Some(n) : n \in Nested(d - 1) }

Natives == UNION { Nested(d) : d \in 0..MaxNest }

\* a widening that fills the upper bits with zeros
as_i64_zero_extend(ty, bits) == bits

\* `value as i64` from an 8 or 16 bit type: sign-extended from a signed type,
\* zero-extended from an unsigned one
as_i64(ty, bits) ==
    IF ty \in Signed /\ bits >= 2^(Bits(ty) - 1) THEN bits - 2^Bits(ty) ELSE bits

RECURSIVE from(_)
from(value) ==
    CASE value.ty \in BitTypes -> Integer(as_i64(value.ty, value.bits))
      [] value.ty \in {"i64", "i32", "u32"} -> Integer(value.num)
      [] value.ty = "f64" -> Real(value.real)
      [] value.ty \in {"String", "&str"} -> Text(value.str)
      [] value.ty \in {"Vec<u8>", "&[u8]"} -> Blob(value.bytes)
      [] value.ty = "Option" ->
            IF value.opt = <<>> THEN Null ELSE from(value.opt[1])

InitCoerce ==
    /\ table = {}
    /\ notnull \in Schemas
    /\ stmt = NoStmt
    /\ last = NoOp
    /\ tasks = NoTasks
    /\ coerced \in { [done |-> FALSE, native |-> n, value |-> Null] : n \in Natives }

into ==
    /\ ~coerced.done
    /\ coerced' = [coerced EXCEPT !.done = TRUE, !.value = from(coerced.native)]
    /\ UNCHANGED <<table, notnull, stmt, last, tasks>>

SpecCoerce == InitCoerce /\ [][into]_vars

\* the value inside the Some(..) around it, None when there is none
RECURSIVE Innermost(_)
Innermost(n) ==
    IF n.ty = "Option" /\ n.opt # <<>> THEN Innermost(n.opt[1]) ELSE n

\* the number a bit pattern stands for in its type
NumericValue(n) ==
    IF n.ty \in BitTypes
    THEN LET range == IF n.ty \in Signed
                      THEN -(2^(Bits(n.ty) - 1))..(2^(Bits(n.ty) - 1) - 1)
                      ELSE 0..(2^Bits(n.ty) - 1)
         IN  CHOOSE v \in range : (v - n.bits) % 2^Bits(n.ty) = 0
    ELSE n.num

\* C16: coercion gives every supported native value the tag of its type and
\* leaves the payload as it is: a value of a signed or unsigned integer type
\* becomes Integer of the same number, an f64 Real, a String or &str Text, a
\* Vec<u8> or &[u8] Blob, None becomes Null, and Some(v) becomes what v
\* becomes, also when options are nested.
C16_CoercionKeepsPayload ==
    coerced.done =>
        LET n == Innermost(coerced.native)
            v == coerced.value
        IN  /\ n.ty = "Option" => v = Null
            /\ n.ty \in BitTypes \cup {"i64", "i32", "u32"} =>
                  v = [tag |-> "Integer", int |-> NumericValue(n)]
            /\ n.ty = "f64" => v = [tag |-> "Real", num |-> n.real]
            /\ n.ty \in {"String", "&str"} => v = [tag |-> "Text", str |-> n.str]
            /\ n.ty \in {"Vec<u8>", "&[u8]"} => v = [tag |-> "Blob", bytes |-> n.bytes]

\* the i8 of bit pattern 255 inside two options: Integer(-1)
C16_Witness ==
    /\ coerced.done
    /\ coerced.native = Some(Some([ty |-> "i8", bits |-> 255]))
    /\ coerced.value = Integer(-1)

----------------------------------------------------------------------------
(* Upserts that run concurrently against one pool.  A task builds its      *)
(* statement and binds up to the await of fetch_one; the store then runs   *)
(* the statement of one task at a time, each as a whole.                   *)

NumTasks == 2

Task(e) == [pc |-> "start", e |-> e, stmt |-> NoStmt, ok |-> TRUE, rows |-> <<>>]

InitConc ==
    /\ table = {}
    /\ notnull \in Schemas
    /\ stmt = NoStmt
    /\ last = NoOp
    /\ coerced = NoCoercion
    /\ \E k \in KeyVals :
          tasks \in [1..NumTasks -> { Task(e) : e \in { x \in Entities : x[primary_col] = Integer(k) } }]

\* the task builds the statement and binds its values (up to the await)
upsert_build(i, order) ==
    /\ tasks[i].pc = "start"
    /\ tasks' = [tasks EXCEPT ![i].pc = "built",
                              ![i].stmt = upsert_stmt(tasks[i].e, order, {}, primary_col)]
    /\ UNCHANGED <<table, notnull, stmt, last, coerced>>

\* the store runs the task's statement and the task takes the row
upsert_fetch_one(i) ==
    LET r == fetch_one(ExecWrite(table, notnull, tasks[i].stmt))
    IN  /\ tasks[i].pc = "built"
        /\ table' = r.table
        /\ tasks' = [tasks EXCEPT ![i].pc = "done", ![i].ok = r.ok, ![i].rows = r.rows]
        /\ UNCHANGED <<notnull, stmt, last, coerced>>

NextConc ==
    \/ \E i \in 1..NumTasks, order \in Orders : upsert_build(i, order)
    \/ \E i \in 1..NumTasks : upsert_fetch_one(i)

SpecConc == InitConc /\ [][NextConc]_vars

AllDone == \A i \in 1..NumTasks : tasks[i].pc = "done"

\* the store accepts the entity: no NULL in a column declared not null
Accepted(e) == \A c \in notnull : e[c] # Null

\* C17: however two or more concurrent upserts of the same conflict-column
\* value (empty skip-list) interleave, each upsert the store accepts succeeds
\* and, once all have returned, the table holds exactly one row of that key
\* (when any was accepted), which equals on every column the entity of one of
\* the accepted upserts: columns of different upserts are never mixed.
C17_ConcurrentUpsertsOneRow ==
    (tasks # NoTasks /\ AllDone) =>
        LET key == tasks[1].e[primary_col]
            rows == Holding(table, primary_col, key)
            accepted == { i \in 1..NumTasks : Accepted(tasks[i].e) }
        IN  /\ \A i \in 1..NumTasks : tasks[i].ok <=> i \in accepted
            /\ accepted # {} =>
                  /\ Cardinality(rows) = 1
                  /\ \E i \in accepted : rows = { tasks[i].e }
            /\ accepted = {} => rows = {}
            /\ table = rows

\* two upserts of one key that differ in name and passwd, both accepted and
\* both built before the store ran either
C17_Witness ==
    /\ tasks # NoTasks
    /\ AllDone
    /\ tasks[1].ok /\ tasks[2].ok
    /\ tasks[1].e["name"] # tasks[2].e["name"]
    /\ tasks[1].e["passwd"] # tasks[2].e["passwd"]
    /\ tasks[1].stmt.column_names # tasks[2].stmt.column_names
    /\ table = { tasks[1].e }

============================================================================
